---- MODULE Spec2Model ----
(***************************************************************************)
(* Seed Hunter: the on-chain redemption contract GandalfBreakerNFT, the    *)
(* HintPayment contract and the web client's submit flow.                  *)
(***************************************************************************)
EXTENDS Integers, Sequences, FiniteSets, TLC

(***************************************************************************)
(* Bounds of the model                                                     *)
(***************************************************************************)
NumNonces == 2
MaxTime == 1
InitialBalance == 500
MaxInflight == 2
MaxSessions == 2

(***************************************************************************)
(* Program constants and the address space                                 *)
(***************************************************************************)
MAX_LEVEL == 7
ZeroAddress == "0x0"

Users == {"alice", "bob"}
OwnerAddr == "deployer"
ThisContract == "nft"
OtherContract == "nft2"
BackendKey == "backend"
RotatedKey == "backend2"
UnknownAddr == "nobody"

Keys == {BackendKey, RotatedKey}
Contracts == {ThisContract, OtherContract}
Nonces == 1..NumNonces
Times == 0..MaxTime
LevelsTried == {0, 1, MAX_LEVEL, MAX_LEVEL + 1}
BaseURIs == {"", "ipfs://seed/"}

MAX_HINTS_PER_LEVEL == 3
HintContract == "hints"
HintIndicesTried == {MAX_HINTS_PER_LEVEL - 1, MAX_HINTS_PER_LEVEL}
NegotiatedPrices == {500}
PriceTables == {<<0, 0, 0>>, <<500, 500, 500>>}

totalLevels == 7
NoAccount == "null"
WalletAccounts == {"alice"}

VARIABLES
    signer,            \* address public signer
    tokenIdCounter,    \* uint256 private _tokenIdCounter
    baseURI,           \* string public baseURI
    completedLevels,   \* set of <<user, level>> whose mapping entry is true
    tokenLevel,        \* tokenId + 1 -> level
    tokenCompletedAt,  \* tokenId + 1 -> block.timestamp of the mint
    usedNonces,        \* set of nonces whose mapping entry is true
    owners,            \* ERC721 _owners: tokenId + 1 -> address
    now,               \* block.timestamp
    minted,            \* the LevelCompleted events: user and level, by tokenId + 1
    lastCall,          \* the most recent transaction and its outcome
    hintPrices,        \* HintPayment: level -> the three prices
    purchases,         \* HintPayment: set of <<user, level, hintIndex>> purchased
    usedSignatures,    \* HintPayment: set of message hashes marked used
    totalCollected,    \* HintPayment: uint256 public totalCollected
    tokenBalance,      \* paymentToken.balanceOf: address -> amount
    priceSigner,       \* HintPayment: address public priceSigner
    appLevel,          \* App: const [level, setLevel]
    account,           \* useMetaMask: const [account, setAccount]
    inputValue,        \* App: const [inputValue, setInputValue]
    inflight,          \* handleSubmit calls awaiting submitPassword
    appCompletedLevels,\* App: const [completedLevels, setCompletedLevels]
    collectedWords,    \* App: const [collectedWords, setCollectedWords]
    feedback,          \* App: const [feedback, setFeedback]
    nftModal,          \* App: const [nftModal, setNftModal]
    issuedNonces,      \* backend: the nonces the Signature Issuer recorded
    txPool,            \* mint transactions sent by the wallet, not yet mined
    sessionIds,        \* chatService: const sessionIds = {} (0 for no entry)
    chatInflight,      \* sendMessageToAI calls awaiting POST /api/brain/chat
    deleteInflight,    \* clearSession calls awaiting DELETE /api/brain/session
    sessions,          \* backend: the Session Store's live session ids
    createdSessions,   \* backend: how many session ids were generated
    lastChat,          \* the most recent chat call and what it returned
    chatPending,       \* App: const [chatPending, setChatPending] = useState(false)
    chatValue,         \* App: const [chatValue, setChatValue] = useState('')
    aiReply            \* App: the reply on display and the level it answers

nftVars == <<signer, tokenIdCounter, baseURI, completedLevels, tokenLevel,
             tokenCompletedAt, usedNonces, owners, minted>>

hintVars == <<hintPrices, purchases, usedSignatures, totalCollected,
              tokenBalance, priceSigner>>

clientVars == <<appLevel, account, inputValue, inflight, appCompletedLevels,
                collectedWords, feedback, nftModal, issuedNonces>>

chatVars == <<sessionIds, chatInflight, deleteInflight, sessions,
              createdSessions, lastChat>>

chatUiVars == <<chatPending, chatValue, aiReply>>

vars == <<nftVars, hintVars, now, lastCall, clientVars, txPool, chatVars,
          chatUiVars>>

outsideNft == <<hintVars, clientVars, chatVars, chatUiVars>>
outsideHint == <<nftVars, clientVars, txPool, chatVars, chatUiVars>>
outsideClient == <<nftVars, hintVars, now, lastCall, chatVars>>
outsideChat == <<nftVars, hintVars, now, lastCall, clientVars, txPool>>

(***************************************************************************)
(* Signatures.  keccak256(abi.encodePacked(...)) over fixed-width fields   *)
(* is injective, so the hash is the tuple of the fields.  A signature is   *)
(* the signing key together with the hash it was made over; recovery with  *)
(* any other hash yields an address nobody controls.                       *)
(***************************************************************************)
MessageHash(sender, level, nonce, deadline, self) ==
    <<sender, level, nonce, deadline, self>>

Sign(key, hash) == [key |-> key, hash |-> hash]

Recover(hash, signature) ==
    IF signature.hash = hash THEN signature.key ELSE UnknownAddr

\* What is observed of a transaction: the function, its outcome, the level
\* and deadline arguments, the key that made the presented signature and the
\* field of the signed message that differs from the call's own ("none" when
\* all agree).
NoCall == [op |-> "none", result |-> "none", level |-> 0, deadline |-> 0,
           sigKey |-> ZeroAddress, sigDiff |-> "none", byOwner |-> FALSE]

Call(op, result, level, deadline, sigKey, sigDiff) ==
    [op |-> op, result |-> result, level |-> level, deadline |-> deadline,
     sigKey |-> sigKey, sigDiff |-> sigDiff, byOwner |-> FALSE]

\* A call to a function behind onlyOwner: byOwner is msg.sender == owner().
OwnerCall(op, result, level, sender) ==
    [Call(op, result, level, 0, ZeroAddress, "none")
        EXCEPT !.byOwner = (sender = OwnerAddr)]

\* A call of one of the two purchase functions: the caller, the hint and the
\* price it asked for are kept with the outcome.
HintCall(op, result, sender, level, hintIndex, price, deadline, sigKey, sigDiff) ==
    Call(op, result, level, deadline, sigKey, sigDiff)
        @@ [sender |-> sender, hintIndex |-> hintIndex, price |-> price]

HashDiff(hash, sender, level, nonce, deadline) ==
    IF hash[1] # sender THEN "sender"
    ELSE IF hash[2] # level THEN "level"
    ELSE IF hash[3] # nonce THEN "nonce"
    ELSE IF hash[4] # deadline THEN "deadline"
    ELSE IF hash[5] # ThisContract THEN "contract"
    ELSE "none"

\* HintPayment's constructor: the default prices in micro-USDC.
DefaultHintPrices ==
    [l \in 1..MAX_LEVEL |->
        CASE l = 1 -> <<1000, 1500, 2000>>
          [] l = 2 -> <<2000, 3000, 4000>>
          [] l = 3 -> <<5000, 7500, 10000>>
          [] l = 4 -> <<10000, 15000, 20000>>
          [] l = 5 -> <<15000, 22500, 30000>>
          [] l = 6 -> <<20000, 30000, 40000>>
          [] OTHER -> <<30000, 45000, 60000>>]

(***************************************************************************)
(* Text.  A string is the sequence of its characters.                      *)
(***************************************************************************)
LowerLetters ==
    <<"a", "b", "c", "d", "e", "f", "g", "h", "i", "j", "k", "l", "m",
      "n", "o", "p", "q", "r", "s", "t", "u", "v", "w", "x", "y", "z">>

UpperLetters ==
    <<"A", "B", "C", "D", "E", "F", "G", "H", "I", "J", "K", "L", "M",
      "N", "O", "P", "Q", "R", "S", "T", "U", "V", "W", "X", "Y", "Z">>

\* String.prototype.toUpperCase
toUpperCase(str) ==
    [i \in DOMAIN str |->
        IF \E k \in DOMAIN LowerLetters : LowerLetters[k] = str[i]
        THEN UpperLetters[CHOOSE k \in DOMAIN LowerLetters : LowerLetters[k] = str[i]]
        ELSE str[i]]

RECURSIVE trimStart(_)
trimStart(str) ==
    IF str # <<>> /\ Head(str) = " " THEN trimStart(Tail(str)) ELSE str

RECURSIVE trimEnd(_)
trimEnd(str) ==
    IF str # <<>> /\ str[Len(str)] = " "
    THEN trimEnd(SubSeq(str, 1, Len(str) - 1))
    ELSE str

\* String.prototype.trim
trim(str) == trimEnd(trimStart(str))

SPARK == <<"S", "P", "A", "R", "K">>

\* The NFT modal when hidden, and nftData.signatureData when the response
\* carried no mint_signature.
NoSignature ==
    [level |-> 0, signature |-> Sign(ZeroAddress, <<>>), nonce |-> 0,
     deadline |-> 0]

HiddenModal == [visible |-> FALSE, level |-> 0, signatureData |-> NoSignature]

\* sessionIds[level] when the object has no such key, and session_id: null.
NoSession == 0

\* What a chat call returned: the path it took, its level, the reply as it
\* came from the model or the backend, the text handed to the page and the
\* blocked flag (FALSE when the call returns none).
NoChat == [op |-> "none", level |-> 0, reply |-> <<>>, text |-> <<>>,
           blocked |-> FALSE]

ChatResult(op, lvl, reply, text, blocked) ==
    [op |-> op, level |-> lvl, reply |-> reply, text |-> text,
     blocked |-> blocked]

\* What the reply panel shows: the text, what set it ("initial", "chat",
\* "failed", "verdict") and the level of the request it answers (0 for
\* the greeting).
Shown(source, lvl, text) == [source |-> source, level |-> lvl, text |-> text]

GreetingText == <<"g", "u", "a", "r", "d">>
ConnectFailedText == <<"r", "e", "t", "r", "y">>
CrackedText == <<"c", "r", "a", "c", "k", "e", "d">>
DeniedText == <<"d", "e", "n", "i", "e", "d">>

initialAiReply == Shown("initial", 0, GreetingText)

RemoveAt(seq, i) == SubSeq(seq, 1, i - 1) \o SubSeq(seq, i + 1, Len(seq))

\* Array.prototype.sort((a, b) => a - b)
RECURSIVE SortNumeric(_)
SortNumeric(seq) ==
    IF seq = <<>> THEN <<>>
    ELSE LET i == CHOOSE j \in DOMAIN seq : \A k \in DOMAIN seq : seq[j] <= seq[k]
         IN <<seq[i]>> \o SortNumeric(RemoveAt(seq, i))

Includes(seq, x) == \E i \in DOMAIN seq : seq[i] = x

(***************************************************************************)
(* The item gandalf:completedLevels of localStorage and its loading        *)
(***************************************************************************)
\* A JSON value: its type with the number, the characters or the items
\* that go with it; half marks the number n + 0.5.
JsonValue(t, n, half, s, items) == [t |-> t, n |-> n, half |-> half, s |-> s, items |-> items]

JNumber(n) == JsonValue("number", n, FALSE, <<>>, <<>>)
JHalf(n) == JsonValue("number", n, TRUE, <<>>, <<>>)
JString(s) == JsonValue("string", 0, FALSE, s, <<>>)
JBoolean(b) == JsonValue("boolean", IF b THEN 1 ELSE 0, FALSE, <<>>, <<>>)
JNull == JsonValue("null", 0, FALSE, <<>>, <<>>)
JObject == JsonValue("object", 0, FALSE, <<>>, <<>>)
JArray(items) == JsonValue("array", 0, FALSE, <<>>, items)

\* What getItem and JSON.parse make of the stored item: getItem throws,
\* there is no item, the text is empty, JSON.parse throws, or the text
\* parses into a value.
StoredItem(kind, value) == [kind |-> kind, value |-> value]

NoItem == StoredItem("null", JNull)
StorageDenied == StoredItem("denied", JNull)
EmptyText == StoredItem("empty", JNull)
MalformedText == StoredItem("malformed", JNull)
JsonText(value) == StoredItem("json", value)

\* A JavaScript number: NaN, n, or n + 0.5.
NumberValue(nan, n, half) == [nan |-> nan, n |-> n, half |-> half]
NaN == NumberValue(TRUE, 0, FALSE)

Digits == <<"0", "1", "2", "3", "4", "5", "6", "7", "8", "9">>

IsDigit(c) == \E k \in DOMAIN Digits : Digits[k] = c

DigitValue(c) == (CHOOSE k \in DOMAIN Digits : Digits[k] = c) - 1

RECURSIVE DecimalValue(_)
DecimalValue(str) ==
    IF str = <<>> THEN 0
    ELSE 10 * DecimalValue(SubSeq(str, 1, Len(str) - 1)) + DigitValue(str[Len(str)])

\* Number(string) for texts of digits, blanks and letters: white space is
\* trimmed, the empty text is 0, decimal digits are their value, anything
\* else is NaN.
StringToNumber(str) ==
    LET text == trim(str) IN
    IF text = <<>> THEN NumberValue(FALSE, 0, FALSE)
    ELSE IF \A i \in DOMAIN text : IsDigit(text[i])
    THEN NumberValue(FALSE, DecimalValue(text), FALSE)
    ELSE NaN

\* Number(v) for a value that is not an array.
ScalarToNumber(v) ==
    CASE v.t = "number" -> NumberValue(FALSE, v.n, v.half)
      [] v.t = "string" -> StringToNumber(v.s)
      [] v.t = "boolean" -> NumberValue(FALSE, v.n, FALSE)
      [] v.t = "null" -> NumberValue(FALSE, 0, FALSE)
      [] OTHER -> NaN

\* Number(v): an array goes through its text, which is empty for no items,
\* the text of its item for one number, string or null, and no number
\* otherwise.
ToNumber(v) ==
    IF v.t # "array" THEN ScalarToNumber(v)
    ELSE IF v.items = <<>> THEN NumberValue(FALSE, 0, FALSE)
    ELSE IF Len(v.items) = 1 /\ v.items[1].t \in {"number", "string", "null"}
    THEN ScalarToNumber(v.items[1])
    ELSE NaN

\* Number.isInteger(v) && v >= 1 && v <= totalLevels
IsLevelNumber(v) == ~v.nan /\ ~v.half /\ v.n >= 1 /\ v.n <= totalLevels

\* Array.from(new Set(array)): the first occurrence of each value, in order.
RECURSIVE Distinct(_)
Distinct(seq) ==
    IF seq = <<>> THEN <<>>
    ELSE LET front == Distinct(SubSeq(seq, 1, Len(seq) - 1))
             last == seq[Len(seq)]
         IN IF Includes(front, last) THEN front ELSE Append(front, last)

\* parsed.map((v) => Number(v)).filter(...)
FilteredLevels(parsed) ==
    LET mapped == [i \in DOMAIN parsed.items |-> ToNumber(parsed.items[i])]
        filtered == SelectSeq(mapped, IsLevelNumber)
    IN [i \in DOMAIN filtered |-> filtered[i].n]

loadCompletedLevels_NoSet(item) ==
    IF item.kind # "json" THEN <<>>
    ELSE IF item.value.t # "array" THEN <<>>
    ELSE SortNumeric(FilteredLevels(item.value))

\* The initial state of completedLevels: [] when getItem or JSON.parse
\* throws, when there is no item or an empty one, and when the value is
\* not an array; otherwise the level numbers among the items, each once,
\* in ascending order.
loadCompletedLevels(item) ==
    IF item.kind # "json" THEN <<>>
    ELSE IF item.value.t # "array" THEN <<>>
    ELSE SortNumeric(Distinct(FilteredLevels(item.value)))

(***************************************************************************)
(* Construction: the two contracts as deployed, the page as loaded         *)
(***************************************************************************)
InitLoaded(item) ==
    /\ signer = BackendKey
    /\ tokenIdCounter = 0
    /\ baseURI = ""
    /\ completedLevels = {}
    /\ tokenLevel = <<>>
    /\ tokenCompletedAt = <<>>
    /\ usedNonces = {}
    /\ owners = <<>>
    /\ now = 0
    /\ minted = <<>>
    /\ lastCall = NoCall
    /\ appLevel = 1
    /\ account = NoAccount
    /\ inputValue = <<>>
    /\ inflight = <<>>
    /\ appCompletedLevels = loadCompletedLevels(item)
    /\ collectedWords = [l \in 1..totalLevels |-> <<>>]
    /\ feedback = "hidden"
    /\ nftModal = HiddenModal
    /\ issuedNonces = {}
    /\ txPool = {}
    /\ sessionIds = [l \in 1..totalLevels |-> NoSession]
    /\ chatInflight = <<>>
    /\ deleteInflight = <<>>
    /\ sessions = {}
    /\ createdSessions = 0
    /\ lastChat = NoChat
    /\ chatPending = FALSE
    /\ chatValue = <<>>
    /\ aiReply = initialAiReply
    /\ hintPrices = DefaultHintPrices
    /\ purchases = {}
    /\ usedSignatures = {}
    /\ totalCollected = 0
    /\ tokenBalance = [a \in Users \cup {HintContract} |->
                          IF a \in Users THEN InitialBalance ELSE 0]
    /\ priceSigner = BackendKey

\* A first visit: nothing is stored.
Init == InitLoaded(NoItem)

\* The checks of mintWithSignature in the order the code makes them: the
\* revert reason of the first one that fails, or "ok".
RevertReason(badLevel, completed, expired, nonceUsed, badSignature) ==
    IF badLevel THEN "InvalidLevel"
    ELSE IF completed THEN "AlreadyCompleted"
    ELSE IF expired THEN "SignatureExpired"
    ELSE IF nonceUsed THEN "NonceAlreadyUsed"
    ELSE IF badSignature THEN "InvalidSignature"
    ELSE "ok"

MintOutcome_LevelZeroAllowed(sender, level, signature, nonce, deadline) ==
    LET messageHash == MessageHash(sender, level, nonce, deadline, ThisContract) IN
    RevertReason(level > MAX_LEVEL,
                 <<sender, level>> \in completedLevels,
                 now > deadline,
                 nonce \in usedNonces,
                 Recover(messageHash, signature) # signer)

MintOutcome_NoNonceCheck(sender, level, signature, nonce, deadline) ==
    RevertReason(level = 0 \/ level > MAX_LEVEL,
                 <<sender, level>> \in completedLevels,
                 now > deadline,
                 FALSE,
                 Recover(MessageHash(sender, level, nonce, deadline, ThisContract),
                         signature) # signer)

MintOutcome_NoCompletedCheck(sender, level, signature, nonce, deadline) ==
    RevertReason(level = 0 \/ level > MAX_LEVEL,
                 FALSE,
                 now > deadline,
                 nonce \in usedNonces,
                 Recover(MessageHash(sender, level, nonce, deadline, ThisContract),
                         signature) # signer)

MintOutcome_SenderNotHashed(sender, level, signature, nonce, deadline) ==
    RevertReason(level = 0 \/ level > MAX_LEVEL,
                 <<sender, level>> \in completedLevels,
                 now > deadline,
                 nonce \in usedNonces,
                 Recover(MessageHash(signature.hash[1], level, nonce, deadline,
                                     ThisContract), signature) # signer)

MintOutcome_DeadlineExclusive(sender, level, signature, nonce, deadline) ==
    RevertReason(level = 0 \/ level > MAX_LEVEL,
                 <<sender, level>> \in completedLevels,
                 now >= deadline,
                 nonce \in usedNonces,
                 Recover(MessageHash(sender, level, nonce, deadline, ThisContract),
                         signature) # signer)

MintOutcome_AnySigner(sender, level, signature, nonce, deadline) ==
    RevertReason(level = 0 \/ level > MAX_LEVEL,
                 <<sender, level>> \in completedLevels,
                 now > deadline,
                 nonce \in usedNonces,
                 Recover(MessageHash(sender, level, nonce, deadline, ThisContract),
                         signature) = UnknownAddr)

MintOutcome(sender, level, signature, nonce, deadline) ==
    RevertReason(level = 0 \/ level > MAX_LEVEL,
                 <<sender, level>> \in completedLevels,
                 now > deadline,
                 nonce \in usedNonces,
                 Recover(MessageHash(sender, level, nonce, deadline, ThisContract),
                         signature) # signer)

mintWithSignature(sender, level, signature, nonce, deadline) ==
    LET outcome == MintOutcome(sender, level, signature, nonce, deadline) IN
    /\ lastCall' = Call("mintWithSignature", outcome, level, deadline, signature.key,
                        HashDiff(signature.hash, sender, level, nonce, deadline))
    /\ IF outcome = "ok"
       THEN /\ usedNonces' = usedNonces \cup {nonce}
            /\ completedLevels' = completedLevels \cup {<<sender, level>>}
            /\ tokenIdCounter' = tokenIdCounter + 1
            /\ tokenLevel' = Append(tokenLevel, level)
            /\ tokenCompletedAt' = Append(tokenCompletedAt, now)
            /\ owners' = Append(owners, sender)
            /\ minted' = Append(minted, [user |-> sender, level |-> level])
            /\ UNCHANGED <<signer, baseURI, now, outsideNft>>
       ELSE UNCHANGED <<nftVars, now, outsideNft>>

\* The checks of mintWithSignature against given contents of the two
\* mappings: what a call entered in the middle of another one finds.
MintOutcomeIn(used, completed, sender, level, signature, nonce, deadline) ==
    RevertReason(level = 0 \/ level > MAX_LEVEL,
                 <<sender, level>> \in completed,
                 now > deadline,
                 nonce \in used,
                 Recover(MessageHash(sender, level, nonce, deadline, ThisContract),
                         signature) # signer)

AtCallback_WritesAfterMint(sender, level, nonce) ==
    [usedNonces |-> usedNonces, completedLevels |-> completedLevels]

\* The mappings when _safeMint calls the recipient: usedNonces and
\* completedLevels have been written.
AtCallback(sender, level, nonce) ==
    [usedNonces |-> usedNonces \cup {nonce},
     completedLevels |-> completedLevels \cup {<<sender, level>>}]

\* What is kept of a mint whose recipient called back into the contract.
ReentrantCall(result, sender, level, nonce, deadline, signature, inner, innerResult) ==
    Call("mintWithSignature", result, level, deadline, signature.key,
         HashDiff(signature.hash, sender, level, nonce, deadline))
        @@ [nonce |-> nonce, innerLevel |-> inner.level,
            innerNonce |-> inner.nonce, innerResult |-> innerResult]

\* mintWithSignature called by a contract whose onERC721Received calls
\* mintWithSignature again with the arguments inner.  The inner call runs
\* after the outer call's writes and the mint of its token; when it
\* reverts, the recipient either catches the revert and accepts the token
\* or lets it undo the whole transaction.  The inner token is accepted
\* without a further call.
mintWithSignatureReentered(sender, level, signature, nonce, deadline, inner, catches) ==
    LET outcome == MintOutcome(sender, level, signature, nonce, deadline)
        atCallback == AtCallback(sender, level, nonce)
        innerOutcome == MintOutcomeIn(atCallback.usedNonces,
                                      atCallback.completedLevels, sender,
                                      inner.level, inner.signature,
                                      inner.nonce, inner.deadline)
        kept == outcome = "ok" /\ (innerOutcome = "ok" \/ catches)
        innerLevels == IF innerOutcome = "ok" THEN <<inner.level>> ELSE <<>>
        innerTimes == IF innerOutcome = "ok" THEN <<now>> ELSE <<>>
        innerOwners == IF innerOutcome = "ok" THEN <<sender>> ELSE <<>>
        innerMints == IF innerOutcome = "ok"
                      THEN <<[user |-> sender, level |-> inner.level]>>
                      ELSE <<>>
    IN
    /\ lastCall' = ReentrantCall(IF outcome # "ok" THEN outcome
                                 ELSE IF kept THEN "ok" ELSE innerOutcome,
                                 sender, level, nonce, deadline, signature, inner,
                                 IF outcome = "ok" THEN innerOutcome ELSE "none")
    /\ IF kept
       THEN /\ usedNonces' = usedNonces \cup {nonce}
                    \cup (IF innerOutcome = "ok" THEN {inner.nonce} ELSE {})
            /\ completedLevels' = completedLevels \cup {<<sender, level>>}
                    \cup (IF innerOutcome = "ok" THEN {<<sender, inner.level>>}
                          ELSE {})
            /\ tokenIdCounter' = tokenIdCounter + 1 + Len(innerLevels)
            /\ tokenLevel' = Append(tokenLevel, level) \o innerLevels
            /\ tokenCompletedAt' = Append(tokenCompletedAt, now) \o innerTimes
            /\ owners' = Append(owners, sender) \o innerOwners
            /\ minted' = Append(minted, [user |-> sender, level |-> level])
                             \o innerMints
            /\ UNCHANGED <<signer, baseURI, now, outsideNft>>
       ELSE UNCHANGED <<nftVars, now, outsideNft>>

\* A call of setSigner; oldSigner is the first field of the SignerUpdated
\* event a successful call emits.
SignerCall(result, sender, oldSigner) ==
    OwnerCall("setSigner", result, 0, sender) @@ [oldSigner |-> oldSigner]

setSigner_ResetsNonces(sender, newSigner) ==
    LET outcome == IF sender # OwnerAddr THEN "OwnableUnauthorizedAccount"
                   ELSE IF newSigner = ZeroAddress THEN "ZeroAddress"
                   ELSE "ok" IN
    /\ lastCall' = SignerCall(outcome, sender, signer)
    /\ signer' = IF outcome = "ok" THEN newSigner ELSE signer
    /\ usedNonces' = IF outcome = "ok" THEN {} ELSE usedNonces
    /\ UNCHANGED <<tokenIdCounter, baseURI, completedLevels, tokenLevel,
                   tokenCompletedAt, owners, now, minted, outsideNft,
                   txPool>>

setSigner_AnyCaller(sender, newSigner) ==
    LET outcome == IF newSigner = ZeroAddress THEN "ZeroAddress" ELSE "ok" IN
    /\ lastCall' = SignerCall(outcome, sender, signer)
    /\ signer' = IF outcome = "ok" THEN newSigner ELSE signer
    /\ UNCHANGED <<tokenIdCounter, baseURI, completedLevels, tokenLevel,
                   tokenCompletedAt, usedNonces, owners, now, minted, outsideNft,
                   txPool>>

setSigner(sender, newSigner) ==
    LET outcome == IF sender # OwnerAddr THEN "OwnableUnauthorizedAccount"
                   ELSE IF newSigner = ZeroAddress THEN "ZeroAddress"
                   ELSE "ok" IN
    /\ lastCall' = SignerCall(outcome, sender, signer)
    /\ signer' = IF outcome = "ok" THEN newSigner ELSE signer
    /\ UNCHANGED <<tokenIdCounter, baseURI, completedLevels, tokenLevel,
                   tokenCompletedAt, usedNonces, owners, now, minted, outsideNft,
                   txPool>>

setBaseURI(sender, newBaseURI) ==
    LET outcome == IF sender # OwnerAddr THEN "OwnableUnauthorizedAccount"
                   ELSE "ok" IN
    /\ lastCall' = OwnerCall("setBaseURI", outcome, 0, sender)
    /\ baseURI' = IF outcome = "ok" THEN newBaseURI ELSE baseURI
    /\ UNCHANGED <<signer, tokenIdCounter, completedLevels, tokenLevel,
                   tokenCompletedAt, usedNonces, owners, now, minted, outsideNft,
                   txPool>>

\* ERC721.transferFrom as inherited: the owner moves the token.
transferFrom(sender, from, to, tokenId) ==
    LET outcome == IF to = ZeroAddress THEN "ERC721InvalidReceiver"
                   ELSE IF tokenId >= tokenIdCounter THEN "ERC721NonexistentToken"
                   ELSE IF owners[tokenId + 1] # from THEN "ERC721IncorrectOwner"
                   ELSE IF sender # from THEN "ERC721InsufficientApproval"
                   ELSE "ok" IN
    /\ lastCall' = Call("transferFrom", outcome, 0, 0, ZeroAddress, "none")
    /\ owners' = IF outcome = "ok" THEN [owners EXCEPT ![tokenId + 1] = to]
                 ELSE owners
    /\ UNCHANGED <<signer, tokenIdCounter, baseURI, completedLevels, tokenLevel,
                   tokenCompletedAt, usedNonces, now, minted, outsideNft,
                   txPool>>

getTier_BandsShifted(lvl) ==
    IF lvl < 2 THEN "Bronze"
    ELSE IF lvl < 4 THEN "Silver"
    ELSE IF lvl < 6 THEN "Gold"
    ELSE "Platinum"

getTier(lvl) ==
    IF lvl <= 2 THEN "Bronze"
    ELSE IF lvl <= 4 THEN "Silver"
    ELSE IF lvl <= 6 THEN "Gold"
    ELSE "Platinum"

\* tokenURI: the fields of the on-chain metadata, or the revert of
\* _requireOwned.
tokenURI(tokenId) ==
    IF tokenId >= tokenIdCounter
    THEN [result |-> "ERC721NonexistentToken", level |-> 0, tier |-> "",
          completedAt |-> 0]
    ELSE [result |-> "ok",
          level |-> tokenLevel[tokenId + 1],
          tier |-> getTier(tokenLevel[tokenId + 1]),
          completedAt |-> tokenCompletedAt[tokenId + 1]]

\* A later block: block.timestamp only grows.
Tick ==
    /\ now < MaxTime
    /\ now' = now + 1
    /\ lastCall' = NoCall
    /\ UNCHANGED <<nftVars, hintVars, clientVars, txPool, chatVars, chatUiVars>>

(***************************************************************************)
(* HintPayment                                                             *)
(***************************************************************************)
HintHash(sender, level, hintIndex, negotiatedPrice, deadline, self) ==
    <<sender, level, hintIndex, negotiatedPrice, deadline, self>>

ValidatePurchase_NoPurchasedCheck(sender, level, hintIndex) ==
    IF level = 0 \/ level > MAX_LEVEL THEN "InvalidLevel"
    ELSE IF hintIndex >= MAX_HINTS_PER_LEVEL THEN "InvalidHintIndex"
    ELSE "ok"

\* _validatePurchase: the revert reason, or "ok".
ValidatePurchase(sender, level, hintIndex) ==
    IF level = 0 \/ level > MAX_LEVEL THEN "InvalidLevel"
    ELSE IF hintIndex >= MAX_HINTS_PER_LEVEL THEN "InvalidHintIndex"
    ELSE IF <<sender, level, hintIndex>> \in purchases THEN "AlreadyPurchased"
    ELSE "ok"

\* _processPurchase: safeTransferFrom moves the amount from the buyer to the
\* contract, then the purchase is recorded.  It is reached only when every
\* check has passed and the buyer can pay; a failing transfer reverts the
\* whole transaction.
ProcessPurchase(buyer, level, hintIndex, amount) ==
    /\ tokenBalance' = [tokenBalance EXCEPT
                           ![buyer] = @ - amount,
                           ![HintContract] = @ + amount]
    /\ purchases' = purchases \cup {<<buyer, level, hintIndex>>}
    /\ totalCollected' = totalCollected + amount

TransferOutcome(buyer, amount) ==
    IF tokenBalance[buyer] < amount THEN "ERC20InsufficientBalance" ELSE "ok"

PayForHintOutcome(sender, level, hintIndex) ==
    LET valid == ValidatePurchase(sender, level, hintIndex) IN
    IF valid # "ok" THEN valid
    ELSE IF hintPrices[level][hintIndex + 1] = 0 THEN "InvalidAmount"
    ELSE TransferOutcome(sender, hintPrices[level][hintIndex + 1])

payForHint(sender, level, hintIndex) ==
    LET outcome == PayForHintOutcome(sender, level, hintIndex) IN
    /\ lastCall' = HintCall("payForHint", outcome, sender, level, hintIndex,
                            IF outcome \in {"InvalidLevel", "InvalidHintIndex"}
                            THEN 0 ELSE hintPrices[level][hintIndex + 1],
                            0, ZeroAddress, "none")
    /\ IF outcome = "ok"
       THEN /\ ProcessPurchase(sender, level, hintIndex,
                               hintPrices[level][hintIndex + 1])
            /\ UNCHANGED <<hintPrices, usedSignatures, priceSigner, now,
                           outsideHint>>
       ELSE UNCHANGED <<hintVars, now, outsideHint>>

PayNegotiatedOutcome_Replayable(sender, level, hintIndex, negotiatedPrice, deadline, signature) ==
    LET messageHash == HintHash(sender, level, hintIndex, negotiatedPrice,
                                deadline, HintContract) IN
    IF level = 0 \/ level > MAX_LEVEL THEN "InvalidLevel"
    ELSE IF hintIndex >= MAX_HINTS_PER_LEVEL THEN "InvalidHintIndex"
    ELSE IF now > deadline THEN "SignatureExpired"
    ELSE IF Recover(messageHash, signature) # priceSigner THEN "InvalidSignature"
    ELSE TransferOutcome(sender, negotiatedPrice)

PayNegotiatedOutcome(sender, level, hintIndex, negotiatedPrice, deadline, signature) ==
    LET valid == ValidatePurchase(sender, level, hintIndex)
        messageHash == HintHash(sender, level, hintIndex, negotiatedPrice,
                                deadline, HintContract) IN
    IF valid # "ok" THEN valid
    ELSE IF now > deadline THEN "SignatureExpired"
    ELSE IF messageHash \in usedSignatures THEN "SignatureAlreadyUsed"
    ELSE IF Recover(messageHash, signature) # priceSigner THEN "InvalidSignature"
    ELSE TransferOutcome(sender, negotiatedPrice)

payForHintWithNegotiatedPrice(sender, level, hintIndex, negotiatedPrice, deadline, signature) ==
    LET messageHash == HintHash(sender, level, hintIndex, negotiatedPrice,
                                deadline, HintContract)
        outcome == PayNegotiatedOutcome(sender, level, hintIndex,
                                        negotiatedPrice, deadline, signature) IN
    /\ lastCall' = HintCall("payForHintWithNegotiatedPrice", outcome, sender,
                            level, hintIndex, negotiatedPrice, deadline,
                            signature.key,
                            IF signature.hash = messageHash THEN "none"
                            ELSE "message")
    /\ IF outcome = "ok"
       THEN /\ usedSignatures' = usedSignatures \cup {messageHash}
            /\ ProcessPurchase(sender, level, hintIndex, negotiatedPrice)
            /\ UNCHANGED <<hintPrices, priceSigner, now, outsideHint>>
       ELSE UNCHANGED <<hintVars, now, outsideHint>>

getHintPrice(level, hintIndex) ==
    LET outcome == IF level = 0 \/ level > MAX_LEVEL THEN "InvalidLevel"
                   ELSE IF hintIndex >= MAX_HINTS_PER_LEVEL THEN "InvalidHintIndex"
                   ELSE "ok" IN
    /\ lastCall' = Call("getHintPrice", outcome, level, 0, ZeroAddress, "none")
    /\ UNCHANGED <<hintVars, now, outsideHint>>

getLevelPrices(level) ==
    LET outcome == IF level = 0 \/ level > MAX_LEVEL THEN "InvalidLevel"
                   ELSE "ok" IN
    /\ lastCall' = Call("getLevelPrices", outcome, level, 0, ZeroAddress, "none")
    /\ UNCHANGED <<hintVars, now, outsideHint>>

setHintPrices(sender, level, prices) ==
    LET outcome == IF sender # OwnerAddr THEN "OwnableUnauthorizedAccount"
                   ELSE IF level = 0 \/ level > MAX_LEVEL THEN "InvalidLevel"
                   ELSE "ok" IN
    /\ lastCall' = OwnerCall("setHintPrices", outcome, level, sender)
    /\ hintPrices' = IF outcome = "ok" THEN [hintPrices EXCEPT ![level] = prices]
                     ELSE hintPrices
    /\ UNCHANGED <<purchases, usedSignatures, totalCollected, tokenBalance,
                   priceSigner, now, outsideHint>>


(***************************************************************************)
(* The backend behind POST /api/judge/submit: the Verification Judge, the  *)
(* Secret Registry and the Signature Issuer.                               *)
(***************************************************************************)
LevelSecrets ==
    << <<"S", "U", "N">>, <<"S", "E", "A">>, <<"S", "K", "Y">>,
       <<"I", "C", "E">>, <<"O", "A", "K">>, <<"A", "S", "H">>,
       <<"E", "L", "M">> >>

ValidityWindow == 1

\* Judge step 2: trim whitespace, uppercase.
Normalize(submittedRaw) == toUpperCase(trim(submittedRaw))

\* Judge steps 3 and 4 for a level in range, which is every level the page
\* sends: the sentinel keyword is correct unconditionally, anything else is
\* compared with the level's secret.
Judge(lvl, submittedRaw) ==
    LET normalizedValue == Normalize(submittedRaw) IN
    [correct |-> normalizedValue = SPARK \/ normalizedValue = LevelSecrets[lvl],
     normalizedValue |-> normalizedValue]

FreshNonce ==
    CHOOSE n \in Nonces \ issuedNonces : \A m \in Nonces \ issuedNonces : n <= m

\* The Signature Issuer: a fresh nonce, a deadline one validity window
\* ahead, and the server key's signature over the five fields.
Issue(userAddress, lvl) ==
    LET deadline == now + ValidityWindow IN
    [level |-> lvl,
     signature |-> Sign(BackendKey,
                        MessageHash(userAddress, lvl, FreshNonce, deadline,
                                    ThisContract)),
     nonce |-> FreshNonce,
     deadline |-> deadline]

\* The response body: the verdict, and on a correct guess the NFT metadata
\* and, when the issuer signed, the mint authorization.
SubmitResponse(request, signed) ==
    LET correct == Judge(request.level, request.password).correct IN
    [correct |-> correct,
     mint_signature |-> IF correct /\ signed
                        THEN Issue(request.walletAddress, request.level)
                        ELSE NoSignature,
     nft_metadata |-> correct]

(***************************************************************************)
(* The web client                                                          *)
(***************************************************************************)
AddCompletedLevel_NoIncludesCheck(prev, lvl) == SortNumeric(Append(prev, lvl))

\* The updater passed to setCompletedLevels.
AddCompletedLevel(prev, lvl) ==
    IF Includes(prev, lvl) THEN prev ELSE SortNumeric(Append(prev, lvl))

CollectedWord_AsTyped(raw) == raw

\* const secretWord = raw.toUpperCase()
CollectedWord(raw) == toUpperCase(raw)

\* The input's onChange.
setInputValue(text) ==
    /\ inputValue' = text
    /\ UNCHANGED <<appLevel, account, inflight, appCompletedLevels,
                   collectedWords, feedback, nftModal, issuedNonces, txPool,
                   outsideClient,
                   chatUiVars>>

\* handleSubmit up to its await: nothing is sent for an empty input; the
\* request carries the level and the input of this render.
handleSubmit ==
    LET raw == trim(inputValue) IN
    /\ raw # <<>>
    /\ inflight' = Append(inflight,
            [level |-> appLevel,
             password |-> raw,
             walletAddress |-> IF account = NoAccount THEN ZeroAddress
                               ELSE account])
    /\ UNCHANGED <<appLevel, account, inputValue, appCompletedLevels,
                   collectedWords, feedback, nftModal, issuedNonces, txPool,
                   outsideClient,
                   chatUiVars>>

handleSubmitResolved_IgnoresVerdict(i, result) ==
    LET request == inflight[i] IN
    /\ inflight' = RemoveAt(inflight, i)
    /\ feedback' = IF result.correct THEN "success" ELSE "error"
    /\ appCompletedLevels' = AddCompletedLevel(appCompletedLevels, request.level)
    /\ collectedWords' =
           [collectedWords EXCEPT ![request.level] = CollectedWord(request.password)]
    /\ nftModal' = [visible |-> TRUE, level |-> request.level,
                    signatureData |-> result.mint_signature]
    /\ inputValue' = <<>>
    /\ aiReply' = Shown("verdict", request.level,
                        IF result.correct THEN CrackedText ELSE DeniedText)
    /\ UNCHANGED <<appLevel, account, txPool, outsideClient, chatPending,
                   chatValue>>

\* handleSubmit after submitPassword resolved with result, for the call
\* that is i-th among those still waiting.
handleSubmitResolved(i, result) ==
    LET request == inflight[i]
        ok == result.correct IN
    /\ inflight' = RemoveAt(inflight, i)
    /\ feedback' = IF ok THEN "success" ELSE "error"
    /\ appCompletedLevels' =
           IF ok THEN AddCompletedLevel(appCompletedLevels, request.level)
           ELSE appCompletedLevels
    /\ collectedWords' =
           IF ok
           THEN [collectedWords EXCEPT
                    ![request.level] = CollectedWord(request.password)]
           ELSE collectedWords
    /\ nftModal' =
           IF ok /\ (result.mint_signature # NoSignature \/ result.nft_metadata)
           THEN [visible |-> TRUE, level |-> request.level,
                 signatureData |-> result.mint_signature]
           ELSE nftModal
    /\ inputValue' = <<>>
    /\ aiReply' = Shown("verdict", request.level,
                        IF result.correct THEN CrackedText ELSE DeniedText)
    /\ UNCHANGED <<appLevel, account, txPool, outsideClient, chatPending,
                   chatValue>>

\* handleSubmit when submitPassword threw: the catch branch.
handleSubmitFailed(i) ==
    /\ inflight' = RemoveAt(inflight, i)
    /\ feedback' = "failed"
    /\ inputValue' = <<>>
    /\ UNCHANGED <<appLevel, account, appCompletedLevels, collectedWords,
                   nftModal, issuedNonces, txPool, outsideClient,
                   chatUiVars>>

\* startNewRound: the level, the input, the feedback, the reply panel and
\* the chat box are reset; the panel's timer of 0 ms is taken to fire at
\* once.
startNewRound(nextLevel) ==
    /\ appLevel' = nextLevel
    /\ inputValue' = <<>>
    /\ feedback' = "hidden"
    /\ aiReply' = initialAiReply
    /\ chatValue' = <<>>
    /\ UNCHANGED <<account, inflight, appCompletedLevels, collectedWords,
                   nftModal, issuedNonces, txPool, outsideClient, chatPending>>

\* LevelSelect: const maxUnlocked = Math.max(0, ...completedLevels) + 1
maxUnlocked(completed) ==
    LET values == {0} \cup {completed[i] : i \in DOMAIN completed} IN
    (CHOOSE m \in values : \A v \in values : v <= m) + 1

locked(lvl, completed) == lvl > maxUnlocked(completed)

\* A click on an option of the level selector: a locked option is disabled
\* and its handler returns at once, any other calls onChange, which is
\* startNewRound.
LevelSelect(lvl) ==
    /\ ~locked(lvl, appCompletedLevels)
    /\ startNewRound(lvl)

\* useMetaMask's accountsChanged listener.
onAccountsChanged(accounts) ==
    /\ account' = IF Len(accounts) > 0 THEN accounts[1] ELSE NoAccount
    /\ UNCHANGED <<appLevel, inputValue, inflight, appCompletedLevels,
                   collectedWords, feedback, nftModal, issuedNonces, txPool,
                   outsideClient,
                   chatUiVars>>

\* The modal's onMint: the wallet sends mintWithSignature with the fields of
\* the stored authorization, and the modal closes.
onMint(signatureData) ==
    /\ account # NoAccount
    /\ txPool' = txPool \cup {[from |-> account,
                               level |-> signatureData.level,
                               signature |-> signatureData.signature,
                               nonce |-> signatureData.nonce,
                               deadline |-> signatureData.deadline]}
    /\ nftModal' = HiddenModal
    /\ UNCHANGED <<appLevel, account, inputValue, inflight, appCompletedLevels,
                   collectedWords, feedback, issuedNonces, outsideClient,
                   chatUiVars>>

\* The modal's onClose.
onClose ==
    /\ nftModal' = HiddenModal
    /\ UNCHANGED <<appLevel, account, inputValue, inflight, appCompletedLevels,
                   collectedWords, feedback, issuedNonces, txPool,
                   outsideClient,
                   chatUiVars>>

(***************************************************************************)
(* The transactions the environment sends.  PlayerMintTx presents a        *)
(* signature the current signer made over exactly the call's fields,       *)
(* ForgedMintTx one the signer made over fields that differ from the       *)
(* call's in one position, MintTx one that either key made over the        *)
(* call's fields.                                                          *)
(***************************************************************************)
ValidLevelsTried == {l \in LevelsTried : l >= 1 /\ l <= MAX_LEVEL}

OtherHashes(sender, level, nonce, deadline) ==
    ({MessageHash(u, level, nonce, deadline, ThisContract) : u \in Users}
     \cup {MessageHash(sender, l, nonce, deadline, ThisContract) : l \in ValidLevelsTried}
     \cup {MessageHash(sender, level, n, deadline, ThisContract) : n \in Nonces}
     \cup {MessageHash(sender, level, nonce, d, ThisContract) : d \in Times}
     \cup {MessageHash(sender, level, nonce, deadline, c) : c \in Contracts})
    \ {MessageHash(sender, level, nonce, deadline, ThisContract)}

PlayerMint(sender) ==
    /\ \E lvl \in LevelsTried, nonce \in Nonces, deadline \in Times :
        mintWithSignature(sender, lvl,
            Sign(signer, MessageHash(sender, lvl, nonce, deadline, ThisContract)),
            nonce, deadline)
    /\ UNCHANGED txPool

PlayerMintTx == \E sender \in Users : PlayerMint(sender)

ForgedMintTx ==
    /\ \E sender \in Users, lvl \in ValidLevelsTried, nonce \in Nonces,
          deadline \in Times :
        \E hash \in OtherHashes(sender, lvl, nonce, deadline) :
            mintWithSignature(sender, lvl, Sign(signer, hash), nonce, deadline)
    /\ UNCHANGED txPool

MintTx ==
    /\ \E sender \in Users, lvl \in LevelsTried, nonce \in Nonces,
          deadline \in Times, key \in Keys :
        mintWithSignature(sender, lvl,
            Sign(key, MessageHash(sender, lvl, nonce, deadline, ThisContract)),
            nonce, deadline)
    /\ UNCHANGED txPool

SetSignerTx ==
    \E sender \in {OwnerAddr} \cup Users, newSigner \in Keys \cup {ZeroAddress} :
        setSigner(sender, newSigner)

SetBaseURITx ==
    \E sender \in {OwnerAddr} \cup Users, uri \in BaseURIs :
        setBaseURI(sender, uri)

TransferTx ==
    \E sender \in Users, from \in Users, to \in Users \cup {ZeroAddress},
       tokenId \in 0..NumNonces :
        transferFrom(sender, from, to, tokenId)

\* The hint purchases of one buyer: at the fixed price, and at a price the
\* price signer negotiated with that buyer.
PayForHintBy(sender) ==
    \E level \in LevelsTried, hintIndex \in HintIndicesTried :
        payForHint(sender, level, hintIndex)

PayNegotiatedBy(sender) ==
    \E level \in LevelsTried, hintIndex \in HintIndicesTried,
       price \in NegotiatedPrices, deadline \in Times :
        payForHintWithNegotiatedPrice(sender, level, hintIndex, price, deadline,
            Sign(priceSigner, HintHash(sender, level, hintIndex, price, deadline,
                                       HintContract)))

GetHintPriceCall ==
    \E level \in LevelsTried, hintIndex \in HintIndicesTried :
        getHintPrice(level, hintIndex)

GetLevelPricesCall ==
    \E level \in LevelsTried : getLevelPrices(level)

SetHintPricesTx ==
    \E sender \in {OwnerAddr} \cup Users, level \in LevelsTried,
       prices \in PriceTables :
        setHintPrices(sender, level, prices)

\* The hint shop: two buyers of the hints of one level, paying the fixed
\* price the owner has set or presenting price messages of the backend,
\* their own or each other's, as often as they like.
SalePrice == 200
HintLevelsSold == {1}
HintIndicesSold == {0, 1}
PricesNegotiated == {150}

HintSaleTx ==
    \E level \in HintLevelsSold :
        setHintPrices(OwnerAddr, level, <<SalePrice, SalePrice, 0>>)

BuyFixedTx ==
    \E sender \in Users, level \in HintLevelsSold, hintIndex \in HintIndicesSold :
        payForHint(sender, level, hintIndex)

BuyNegotiatedTx ==
    \E sender \in Users, signedFor \in Users, level \in HintLevelsSold,
       hintIndex \in HintIndicesSold, price \in PricesNegotiated,
       deadline \in Times :
        payForHintWithNegotiatedPrice(sender, level, hintIndex, price, deadline,
            Sign(priceSigner, HintHash(signedFor, level, hintIndex, price,
                                       deadline, HintContract)))

(***************************************************************************)
(* The chat service                                                        *)
(***************************************************************************)
Whitespace == {" "}
LeadingPunctuation == {"?", ":"}

RECURSIVE SkipChars(_, _)
SkipChars(str, chars) ==
    IF str # <<>> /\ Head(str) \in chars THEN SkipChars(Tail(str), chars)
    ELSE str

StripLeadingPunctuation_Unanchored(text) ==
    LET hits == {i \in DOMAIN text : text[i] \in LeadingPunctuation} IN
    IF hits = {} THEN text
    ELSE LET first == CHOOSE i \in hits : \A j \in hits : i <= j IN
         SubSeq(text, 1, first - 1)
            \o SkipChars(SkipChars(SubSeq(text, first, Len(text)),
                                   LeadingPunctuation), Whitespace)

\* text.replace(...): at the start of the text only, blanks, then at least
\* one question mark or colon, then blanks, are removed.
StripLeadingPunctuation(text) ==
    LET afterBlanks == SkipChars(text, Whitespace)
        afterMarks == SkipChars(afterBlanks, LeadingPunctuation) IN
    IF afterMarks = afterBlanks THEN text
    ELSE SkipChars(afterMarks, Whitespace)

\* sendMessageToAI of the client that calls the model itself: the
\* completion is returned with its leading punctuation removed, and no
\* blocked flag.
sendMessageToAI_direct(userMessage, lvl, secretWord, completion) ==
    LET userPrompt == trim(userMessage) IN
    /\ lastChat' = IF userPrompt = <<>>
                   THEN ChatResult("empty", lvl, <<>>, <<>>, FALSE)
                   ELSE ChatResult("direct", lvl, completion,
                                   StripLeadingPunctuation(completion), FALSE)
    /\ UNCHANGED <<sessionIds, chatInflight, deleteInflight, sessions,
                   createdSessions, outsideChat>>

\* sendMessageToAI of the client that calls the backend, up to its await:
\* nothing is sent for an empty message; the request carries the level's
\* stored session id, or null.
sendMessageToAI(userMessage, lvl) ==
    LET userPrompt == trim(userMessage) IN
    /\ IF userPrompt = <<>>
       THEN /\ lastChat' = ChatResult("empty", lvl, <<>>, <<>>, FALSE)
            /\ UNCHANGED chatInflight
       ELSE /\ chatInflight' = Append(chatInflight,
                    [level |-> lvl, session_id |-> sessionIds[lvl]])
            /\ UNCHANGED lastChat
    /\ UNCHANGED <<sessionIds, deleteInflight, sessions, createdSessions,
                   outsideChat>>

CannedRefusal == <<"I", " ", "c", "a", "n", "n", "o", "t">>

\* let text = data.message || ''; a blocked response without a message
\* shows the canned refusal.
ChatText(data) ==
    IF data.blocked /\ data.block_reason /\ data.message = <<>>
    THEN CannedRefusal
    ELSE data.message

\* return { text, blocked: data.blocked, sessionId: data.session_id }
ApiChatResult(lvl, data) ==
    ChatResult("api", lvl, data.message, ChatText(data), data.blocked)
        @@ [sessionId |-> data.session_id]

sendMessageToAIResolved_KeyedByPageLevel(i, data) ==
    LET request == chatInflight[i] IN
    /\ chatInflight' = RemoveAt(chatInflight, i)
    /\ sessionIds' = IF data.session_id # NoSession
                     THEN [sessionIds EXCEPT ![appLevel] = data.session_id]
                     ELSE sessionIds
    /\ lastChat' = ApiChatResult(request.level, data)
    /\ UNCHANGED <<deleteInflight, outsideChat>>

\* sendMessageToAI after the fetch resolved with the body data: the session
\* id is stored under the call's level and the message is returned with
\* the blocked flag.
sendMessageToAIResolved(i, data) ==
    LET request == chatInflight[i] IN
    /\ chatInflight' = RemoveAt(chatInflight, i)
    /\ sessionIds' = IF data.session_id # NoSession
                     THEN [sessionIds EXCEPT ![request.level] = data.session_id]
                     ELSE sessionIds
    /\ lastChat' = ApiChatResult(request.level, data)
    /\ UNCHANGED <<deleteInflight, outsideChat>>

\* sendMessageToAI when the fetch failed or the status was not ok.
sendMessageToAIFailed(i) ==
    /\ chatInflight' = RemoveAt(chatInflight, i)
    /\ lastChat' = ChatResult("failed", chatInflight[i].level, <<>>, <<>>, FALSE)
    /\ UNCHANGED <<sessionIds, deleteInflight, sessions, createdSessions,
                   outsideChat>>

\* onChange of the chat box.
setChatValue(text) ==
    /\ chatValue' = text
    /\ UNCHANGED <<chatPending, aiReply, chatVars, outsideChat>>

\* handleSendChat up to its await: nothing happens while a request is
\* pending or for a message that trims to nothing; otherwise the box is
\* cleared, chatPending is set and the message goes out for the level on
\* the page.
handleSendChat ==
    LET content == trim(chatValue) IN
    IF chatPending \/ content = <<>>
    THEN UNCHANGED vars
    ELSE /\ chatPending' = TRUE
         /\ chatValue' = <<>>
         /\ sendMessageToAI(content, appLevel)
         /\ UNCHANGED aiReply

\* handleSendChat after sendMessageToAI returned: setAiReply(text ||
\* initialAiReply), and chatPending is cleared in the finally block.
handleSendChatResolved(i, data) ==
    LET request == chatInflight[i]
        text == ChatText(data) IN
    /\ sendMessageToAIResolved(i, data)
    /\ aiReply' = Shown("chat", request.level,
                        IF text = <<>> THEN initialAiReply.text ELSE text)
    /\ chatPending' = FALSE
    /\ UNCHANGED chatValue

handleSendChatFailed_NoFinally(i) ==
    /\ sendMessageToAIFailed(i)
    /\ aiReply' = Shown("failed", chatInflight[i].level, ConnectFailedText)
    /\ UNCHANGED <<chatPending, chatValue>>

\* handleSendChat after sendMessageToAI threw: the catch block shows the
\* connection failure and the finally block clears chatPending.
handleSendChatFailed(i) ==
    /\ sendMessageToAIFailed(i)
    /\ aiReply' = Shown("failed", chatInflight[i].level, ConnectFailedText)
    /\ chatPending' = FALSE
    /\ UNCHANGED chatValue

\* clearSession up to its await: nothing to do without a stored id,
\* otherwise the DELETE for the stored id is sent.
clearSession(lvl) ==
    LET sessionId == sessionIds[lvl] IN
    /\ deleteInflight' = IF sessionId = NoSession THEN deleteInflight
                         ELSE Append(deleteInflight,
                                     [level |-> lvl, sessionId |-> sessionId])
    /\ UNCHANGED <<sessionIds, chatInflight, sessions, createdSessions,
                   lastChat, outsideChat>>

clearSessionReturned_DeletesEveryLevel(i) ==
    /\ deleteInflight' = RemoveAt(deleteInflight, i)
    /\ sessionIds' = [l \in DOMAIN sessionIds |-> NoSession]
    /\ UNCHANGED <<chatInflight, createdSessions, lastChat, outsideChat>>

\* clearSession after the fetch resolved, whatever the status: delete
\* sessionIds[level].
clearSessionReturned(i) ==
    /\ deleteInflight' = RemoveAt(deleteInflight, i)
    /\ sessionIds' = [sessionIds EXCEPT ![deleteInflight[i].level] = NoSession]
    /\ UNCHANGED <<chatInflight, createdSessions, lastChat, outsideChat>>

\* clearSession when the fetch threw: the catch branch only logs.
clearSessionFailed(i) ==
    /\ deleteInflight' = RemoveAt(deleteInflight, i)
    /\ UNCHANGED <<sessionIds, chatInflight, createdSessions, lastChat,
                   outsideChat>>

(***************************************************************************)
(* The player at the page, the backend answering and the chain mining.     *)
(***************************************************************************)
toLowerCase(str) ==
    [i \in DOMAIN str |->
        IF \E k \in DOMAIN UpperLetters : UpperLetters[k] = str[i]
        THEN LowerLetters[CHOOSE k \in DOMAIN UpperLetters : UpperLetters[k] = str[i]]
        ELSE str[i]]

\* What the player types: the level's secret in lower case with blanks
\* around it, a wrong word, and nothing but a blank.
SecretGuesses(lvl) ==
    {<<" ">> \o toLowerCase(LevelSecrets[lvl]) \o <<" ">>,
     <<"m", "o", "o", "n">>,
     <<" ">>}

\* The sentinel keyword in lower and in mixed case.
SparkGuesses ==
    {<<"s", "p", "a", "r", "k">>, <<" ", "S", "p", "a", "r", "K">>}

TypeSecretGuess ==
    \E text \in SecretGuesses(appLevel) : setInputValue(text)

TypeSparkGuess ==
    \E text \in SparkGuesses : setInputValue(text)

\* A click on submit while fewer than MaxInflight calls are waiting.
SubmitClick ==
    /\ Len(inflight) < MaxInflight
    /\ handleSubmit

\* A click on submit by a player who waits for each verdict.
PatientSubmitClick ==
    /\ inflight = <<>>
    /\ handleSubmit

\* The backend answers one of the waiting calls, in any order; signers says
\* whether its issuer may sign.
JudgeResponds(signers) ==
    \E i \in DOMAIN inflight, signed \in signers :
        LET result == SubmitResponse(inflight[i], signed) IN
        /\ signed => (Nonces \ issuedNonces # {} /\ result.correct)
        /\ issuedNonces' = IF signed THEN issuedNonces \cup {FreshNonce}
                           ELSE issuedNonces
        /\ handleSubmitResolved(i, result)

RequestFails ==
    \E i \in DOMAIN inflight : handleSubmitFailed(i)

NextLevelClick ==
    /\ feedback = "success"
    /\ appLevel < totalLevels
    /\ startNewRound(appLevel + 1)

\* The player opens the selector and picks one of its options.
LevelSelectClick ==
    \E lvl \in 1..totalLevels : LevelSelect(lvl)

\* The player types the secret of the level on the page.
TypeTheSecret ==
    setInputValue(toLowerCase(LevelSecrets[appLevel]))

WalletConnects ==
    /\ account = NoAccount
    /\ \E a \in WalletAccounts : onAccountsChanged(<<a>>)

MintClick ==
    /\ nftModal.visible
    /\ account # NoAccount
    /\ nftModal.signatureData # NoSignature
    /\ onMint(nftModal.signatureData)

CloseClick ==
    /\ nftModal.visible
    /\ onClose

\* A sent mint transaction is mined.
MineMintTx ==
    \E tx \in txPool :
        /\ mintWithSignature(tx.from, tx.level, tx.signature, tx.nonce, tx.deadline)
        /\ txPool' = txPool \ {tx}

\* Redemption of the signer's authorizations as time passes.
Next ==
    \/ PlayerMintTx
    \/ Tick

Spec == Init /\ [][Next]_vars

\* Redemption where signatures are also presented with calls they were not
\* made for.
NextForge ==
    \/ PlayerMintTx
    \/ ForgedMintTx

SpecForge == Init /\ [][NextForge]_vars

\* Redemption with signatures of either key while the owner rotates the signer.
NextSigner ==
    \/ MintTx
    \/ SetSignerTx
    \/ Tick

SpecSigner == Init /\ [][NextSigner]_vars

\* One player presenting authorizations of either key for the valid levels.
RotationMintTx ==
    /\ \E lvl \in ValidLevelsTried, nonce \in Nonces, deadline \in Times,
          key \in Keys :
        mintWithSignature("alice", lvl,
            Sign(key, MessageHash("alice", lvl, nonce, deadline, ThisContract)),
            nonce, deadline)
    /\ UNCHANGED txPool

\* Redemption before and after the owner's changes of the signer.
NextRotation ==
    \/ RotationMintTx
    \/ SetSignerTx
    \/ Tick

SpecRotation == Init /\ [][NextRotation]_vars

\* The token's life after redemption: administration and transfers.
NextToken ==
    \/ PlayerMintTx
    \/ SetSignerTx
    \/ SetBaseURITx
    \/ TransferTx

SpecToken == Init /\ [][NextToken]_vars

\* One player and the owner calling every function of the two contracts
\* that takes a level.
NextLevel ==
    \/ PlayerMint("alice")
    \/ PayForHintBy("alice")
    \/ PayNegotiatedBy("alice")
    \/ GetHintPriceCall
    \/ GetLevelPricesCall
    \/ SetHintPricesTx

SpecLevel == Init /\ [][NextLevel]_vars

\* One player redeeming authorizations for each of the seven levels.
TierMintTx ==
    /\ \E lvl \in 1..MAX_LEVEL, nonce \in Nonces :
        mintWithSignature("alice", lvl,
            Sign(signer, MessageHash("alice", lvl, nonce, MaxTime, ThisContract)),
            nonce, MaxTime)
    /\ UNCHANGED txPool

NextTier ==
    \/ TierMintTx
    \/ Tick

SpecTier == Init /\ [][NextTier]_vars

\* One player moving between the levels while verdicts arrive.
NextGate ==
    \/ TypeTheSecret
    \/ PatientSubmitClick
    \/ JudgeResponds({FALSE})
    \/ LevelSelectClick
    \/ NextLevelClick
    \/ CloseClick

SpecGate == Init /\ [][NextGate]_vars

\* A contract that mints for itself and, when it receives the token, tries
\* to mint again with an authorization of the signer for itself.
ReceiverContract == "receiver"

ReentrantMintTx ==
    /\ \E lvl \in ValidLevelsTried, nonce \in Nonces,
          innerLvl \in ValidLevelsTried, innerNonce \in Nonces,
          catches \in BOOLEAN :
        mintWithSignatureReentered(ReceiverContract, lvl,
            Sign(signer, MessageHash(ReceiverContract, lvl, nonce, MaxTime,
                                     ThisContract)),
            nonce, MaxTime,
            [level |-> innerLvl, nonce |-> innerNonce, deadline |-> MaxTime,
             signature |-> Sign(signer, MessageHash(ReceiverContract, innerLvl,
                                    innerNonce, MaxTime, ThisContract))],
            catches)
    /\ UNCHANGED txPool

\* Redemption by a contract that re-enters, as time passes.
NextReenter ==
    \/ ReentrantMintTx
    \/ Tick

SpecReenter == Init /\ [][NextReenter]_vars

NextHint ==
    \/ HintSaleTx
    \/ BuyFixedTx
    \/ BuyNegotiatedTx
    \/ Tick

SpecHint == Init /\ [][NextHint]_vars

\* Submissions of one level racing each other and their mints.
NextRace ==
    \/ TypeSecretGuess
    \/ SubmitClick
    \/ JudgeResponds(BOOLEAN)
    \/ RequestFails
    \/ WalletConnects
    \/ MintClick
    \/ MineMintTx

SpecRace == Init /\ [][NextRace]_vars

\* A patient player working through the seven levels, with the sentinel
\* keyword or the level's secret, against a backend that does not sign.
NextSpark ==
    \/ TypeSecretGuess
    \/ TypeSparkGuess
    \/ PatientSubmitClick
    \/ JudgeResponds({FALSE})
    \/ NextLevelClick
    \/ CloseClick

SpecSpark == Init /\ [][NextSpark]_vars

(***************************************************************************)
(* The chat: the player's messages, the model's completions, the backend   *)
(***************************************************************************)
ChatLevelsTried == {1, MAX_LEVEL}
ChatMessages == {<<"h", "i">>, <<" ">>}

\* What the model may answer on a level: the secret in lower case after a
\* question mark, the secret after a colon inside the sentence, a refusal.
Completions(lvl) ==
    {<<"?", " ">> \o toLowerCase(LevelSecrets[lvl]),
     <<"n", "o", ":", " ">> \o LevelSecrets[lvl],
     <<"n", "o">>}

\* Case-insensitive substring match.
ContainsCI(text, word) ==
    \E i \in 1..(Len(text) - Len(word) + 1) :
        toUpperCase(SubSeq(text, i, i + Len(word) - 1)) = toUpperCase(word)

\* The Guard Policy Engine on the output side: a completion containing the
\* level's secret is replaced by a refusal and marked blocked.
GuardedReply(lvl, completion) ==
    IF ContainsCI(completion, LevelSecrets[lvl])
    THEN [message |-> CannedRefusal, blocked |-> TRUE, block_reason |-> TRUE]
    ELSE [message |-> completion, blocked |-> FALSE, block_reason |-> FALSE]

\* The Session Store's getOrCreate: a known id is kept, anything else gets
\* a newly generated id.
GetOrCreate(sessionId) ==
    IF sessionId \in sessions THEN sessionId ELSE createdSessions + 1

DirectChat ==
    \E lvl \in ChatLevelsTried, userMessage \in ChatMessages :
        \E completion \in Completions(lvl) :
            /\ sendMessageToAI_direct(userMessage, lvl, LevelSecrets[lvl],
                                      completion)
            /\ UNCHANGED chatUiVars

\* A caller of the chat service that waits for each reply before it sends
\* the next message.
ChatSend ==
    /\ chatInflight = <<>>
    /\ \E lvl \in ChatLevelsTried, userMessage \in ChatMessages :
        sendMessageToAI(userMessage, lvl)
    /\ UNCHANGED chatUiVars

\* The backend answers a waiting chat call.
BackendChatResponds ==
    \E i \in DOMAIN chatInflight :
        \E completion \in Completions(chatInflight[i].level) :
            LET request == chatInflight[i]
                id == GetOrCreate(request.session_id)
                guarded == GuardedReply(request.level, completion) IN
            /\ id \in sessions \/ createdSessions < MaxSessions
            /\ sessions' = sessions \cup {id}
            /\ createdSessions' = IF id \in sessions THEN createdSessions
                                  ELSE createdSessions + 1
            /\ sendMessageToAIResolved(i,
                    [message |-> guarded.message, blocked |-> guarded.blocked,
                     block_reason |-> guarded.block_reason, session_id |-> id])
            /\ UNCHANGED chatUiVars

ChatRequestFails ==
    /\ \E i \in DOMAIN chatInflight : sendMessageToAIFailed(i)
    /\ UNCHANGED chatUiVars

\* The player types into the chat box; the textarea is disabled while a
\* request is pending.
TypeChat ==
    /\ ~chatPending
    /\ \E text \in ChatMessages : setChatValue(text)

\* A click on send or Enter in the chat box, also one that was under way
\* when the box was disabled.
SendChatClick ==
    handleSendChat

\* The backend answers the page's chat request; the model may also answer
\* with nothing.
ChatReplyArrives ==
    \E i \in DOMAIN chatInflight :
        \E completion \in Completions(chatInflight[i].level) \cup {<<>>} :
            LET request == chatInflight[i]
                id == GetOrCreate(request.session_id)
                guarded == GuardedReply(request.level, completion) IN
            /\ id \in sessions \/ createdSessions < MaxSessions
            /\ sessions' = sessions \cup {id}
            /\ createdSessions' = IF id \in sessions THEN createdSessions
                                  ELSE createdSessions + 1
            /\ handleSendChatResolved(i,
                    [message |-> guarded.message, blocked |-> guarded.blocked,
                     block_reason |-> guarded.block_reason, session_id |-> id])

\* The page's chat request fails: no connection, or a status that is not ok.
ChatReplyFails ==
    \E i \in DOMAIN chatInflight : handleSendChatFailed(i)

\* A caller of the chat service clears the session of a level.
ClearSessionCall ==
    /\ Len(deleteInflight) < MaxInflight
    /\ \E lvl \in ChatLevelsTried : clearSession(lvl)
    /\ UNCHANGED chatUiVars

\* The backend answers a DELETE: the session is dropped if it is known, and
\* the response comes back whatever the status.
DeleteReturns ==
    \E i \in DOMAIN deleteInflight :
        /\ sessions' = sessions \ {deleteInflight[i].sessionId}
        /\ clearSessionReturned(i)
        /\ UNCHANGED chatUiVars

\* The DELETE is lost on the way there or on the way back.
DeleteFails ==
    \E i \in DOMAIN deleteInflight :
        /\ sessions' \in {sessions, sessions \ {deleteInflight[i].sessionId}}
        /\ clearSessionFailed(i)
        /\ UNCHANGED chatUiVars

\* Chatting through the backend on two levels while sessions are cleared.
NextSession ==
    \/ ChatSend
    \/ BackendChatResponds
    \/ ChatRequestFails
    \/ ClearSessionCall
    \/ DeleteReturns
    \/ DeleteFails

SpecSession == Init /\ [][NextSession]_vars

\* Chatting with the model directly and through the backend.
NextChat ==
    \/ DirectChat
    \/ ChatSend
    \/ BackendChatResponds
    \/ ChatRequestFails

SpecChat == Init /\ [][NextChat]_vars

ChatLevelsPlayed == {1, 2}

\* The player picks one of the first levels in the selector.
ChatLevelSelectClick ==
    \E lvl \in ChatLevelsPlayed : LevelSelect(lvl)

\* The chat box of the page, for a player who completes levels and moves
\* between them.
NextChatBox ==
    \/ TypeChat
    \/ SendChatClick
    \/ ChatReplyArrives
    \/ ChatReplyFails
    \/ TypeTheSecret
    \/ PatientSubmitClick
    \/ JudgeResponds({FALSE})
    \/ ChatLevelSelectClick

SpecChatBox == Init /\ [][NextChatBox]_vars

\* Every fetch settles: it resolves, or it rejects.
SpecChatBoxFair ==
    SpecChatBox /\ WF_vars(ChatReplyArrives \/ ChatReplyFails)

(***************************************************************************)
(* Properties of the redemption contract                                   *)
(***************************************************************************)
IsMint == lastCall.op = "mintWithSignature"
MintedNow == tokenIdCounter' = tokenIdCounter + 1
NewMint == minted'[Len(minted')]
Minted(i) == <<minted[i].user, minted[i].level>>

\* C1: a nonce is single-use and global: there are exactly as many used
\* nonces as successful mints, and each successful mint, by whatever caller
\* and for whatever level, marks a nonce that was not used before.
C1_NonceSingleUse ==
    /\ [](Cardinality(usedNonces) = tokenIdCounter /\ Len(minted) = tokenIdCounter)
    /\ [][MintedNow => \E n \in Nonces \ usedNonces : usedNonces' = usedNonces \cup {n}]_vars

\* A second mint, correctly signed for another (user, level), was refused
\* because its nonce had been used by the first.
C1_Witness ==
    /\ IsMint /\ lastCall.result = "NonceAlreadyUsed"
    /\ lastCall.sigKey = signer /\ lastCall.sigDiff = "none"
    /\ tokenIdCounter = 1

\* C2: at most one completion per (user, level): no two successful mints
\* are by the same caller for the same level, the completed pairs are
\* exactly those of the mints made, and a mint never succeeds for a pair
\* that is already completed, whatever nonce it carries.
C2_OneCompletionPerPair ==
    /\ [](/\ \A i, j \in DOMAIN minted : i # j => Minted(i) # Minted(j)
          /\ completedLevels = {Minted(i) : i \in DOMAIN minted})
    /\ [][MintedNow => <<NewMint.user, NewMint.level>> \notin completedLevels]_vars

\* A correctly signed mint for an already completed pair was refused while
\* an unused nonce was still available.
C2_Witness ==
    /\ IsMint /\ lastCall.result = "AlreadyCompleted"
    /\ lastCall.sigKey = signer /\ lastCall.sigDiff = "none"
    /\ usedNonces # Nonces

\* C3: a mint succeeds only when the signed message is exactly (caller,
\* level, nonce, deadline, this contract), and the token goes to the caller.
C3_AuthorizationBound ==
    /\ (IsMint /\ lastCall.result = "ok") => lastCall.sigDiff = "none"
    /\ (IsMint /\ lastCall.sigDiff # "none") =>
            lastCall.result \in {"InvalidLevel", "AlreadyCompleted",
                                 "SignatureExpired", "NonceAlreadyUsed",
                                 "InvalidSignature"}
    /\ \A i \in DOMAIN minted : owners[i] = minted[i].user

\* The signer's authorization for one user was presented by another caller
\* and failed signature verification.
C3_Witness ==
    /\ IsMint /\ lastCall.result = "InvalidSignature"
    /\ lastCall.sigKey = signer /\ lastCall.sigDiff = "sender"

\* C4: a mint succeeds only while block.timestamp <= deadline, the deadline
\* check rejects only when block.timestamp > deadline, and time never goes
\* back, so an expired authorization stays expired.
C4_DeadlineEnforced ==
    /\ []((IsMint /\ lastCall.result = "ok") => now <= lastCall.deadline)
    /\ []((IsMint /\ lastCall.result = "SignatureExpired") => now > lastCall.deadline)
    /\ [][now' >= now]_vars

\* A mint went through in the very block whose timestamp equals the deadline.
C4_Witness ==
    /\ IsMint /\ lastCall.result = "ok"
    /\ now = lastCall.deadline /\ now > 0

\* C5: a mint succeeds only with a signature made by the address currently
\* stored as signer; a rejection for InvalidSignature mints nothing.
C5_OnlyCurrentSigner ==
    /\ []((IsMint /\ lastCall.result = "ok") => lastCall.sigKey = signer)
    /\ [][(lastCall'.op = "mintWithSignature" /\ lastCall'.result = "InvalidSignature")
            => UNCHANGED nftVars]_vars

\* A signature over exactly the call's fields, made by a key that is not
\* the signer, was rejected.
C5_Witness ==
    /\ IsMint /\ lastCall.result = "InvalidSignature"
    /\ lastCall.sigDiff = "none" /\ lastCall.sigKey # signer

\* Some authorization signed by key, for a player, a level, a nonce and a
\* deadline, would be accepted now.
Redeemable(key) ==
    \E sender \in Users, lvl \in ValidLevelsTried, nonce \in Nonces,
       deadline \in Times :
        MintOutcome(sender, lvl,
            Sign(key, MessageHash(sender, lvl, nonce, deadline, ThisContract)),
            nonce, deadline) = "ok"

\* C21 as stated, at the state a successful setSigner leaves: no
\* authorization signed by the previous signer can be redeemed.
C21_AsStated ==
    (lastCall.op = "setSigner" /\ lastCall.result = "ok") =>
        ~Redeemable(lastCall.oldSigner)

\* C21: the signer changes only in a successful setSigner sent by the
\* owner, and never to the zero address; a mint presenting a signature of
\* an address other than the signer stored at that time, a previous signer
\* included, is rejected and changes nothing, so that authorizations of a
\* previous signer are redeemable again only if the owner sets the signer
\* back to it.
C21_RotationRevokes ==
    /\ signer = BackendKey
    /\ [][/\ signer' # ZeroAddress
          /\ \A key \in Keys \ {signer'} : ~Redeemable(key)'
          /\ signer' # signer =>
                /\ lastCall'.op = "setSigner"
                /\ lastCall'.byOwner
                /\ lastCall'.result = "ok"
          /\ (lastCall'.op = "setSigner" /\ lastCall'.result # "ok") =>
                signer' = signer
          /\ (lastCall'.op = "mintWithSignature" /\ lastCall'.sigKey # signer) =>
                /\ lastCall'.result # "ok"
                /\ UNCHANGED nftVars]_vars

\* The signer has been rotated and an authorization of the first signer,
\* made over exactly the call's fields, with no nonce used yet and its
\* deadline not passed, has just been rejected.
C21_Witness ==
    /\ signer = RotatedKey
    /\ IsMint /\ lastCall.result = "InvalidSignature"
    /\ lastCall.sigKey = BackendKey /\ lastCall.sigDiff = "none"
    /\ now <= lastCall.deadline
    /\ usedNonces = {}
    /\ completedLevels = {}

\* C9: completion records and used nonces are permanent: no transaction
\* (mint, setSigner, setBaseURI, transfer) removes one.
C9_RecordsPermanent ==
    [][completedLevels \subseteq completedLevels' /\ usedNonces \subseteq usedNonces']_vars

\* A token was minted, the signer rotated, the base URI changed and the
\* token transferred away, and the record and the nonce are still there.
C9_Witness ==
    /\ Len(minted) >= 1
    /\ signer = RotatedKey
    /\ baseURI # ""
    /\ owners[1] # minted[1].user
    /\ Minted(1) \in completedLevels
    /\ usedNonces # {}

(***************************************************************************)
(* C8: out-of-range levels                                                 *)
(***************************************************************************)
LevelOps == {"mintWithSignature", "payForHint", "payForHintWithNegotiatedPrice",
             "getHintPrice", "getLevelPrices", "setHintPrices"}

LevelOutOfRange(call) == call.level = 0 \/ call.level > MAX_LEVEL

\* C8 as stated: every call of the six functions that names a level outside
\* 1..7 is rejected with InvalidLevel, whoever sends it.
C8_AsStated ==
    (lastCall.op \in LevelOps /\ LevelOutOfRange(lastCall))
        => lastCall.result = "InvalidLevel"

\* C8: a call of mintWithSignature, payForHint,
\* payForHintWithNegotiatedPrice, getHintPrice or getLevelPrices, or a call
\* of setHintPrices by the owner, that names level 0 or a level above 7
\* reverts with InvalidLevel; a call of setHintPrices by anyone else
\* reverts with OwnableUnauthorizedAccount before the level is looked at.
\* Either way no variable of the two contracts changes, and a level in 1..7
\* is never answered with InvalidLevel.
C8_InvalidLevelRejected ==
    /\ [](lastCall.op \in LevelOps =>
            /\ (LevelOutOfRange(lastCall)
                 /\ (lastCall.op = "setHintPrices" => lastCall.byOwner))
                    => lastCall.result = "InvalidLevel"
            /\ (lastCall.op = "setHintPrices" /\ ~lastCall.byOwner)
                    => lastCall.result = "OwnableUnauthorizedAccount"
            /\ ~LevelOutOfRange(lastCall) => lastCall.result # "InvalidLevel")
    /\ [][(lastCall'.op \in LevelOps /\ LevelOutOfRange(lastCall'))
            => UNCHANGED <<nftVars, hintVars>>]_vars

\* After a token was minted, a hint bought and a price table replaced, the
\* owner's setHintPrices for a level above 7 is rejected with InvalidLevel.
C8_Witness ==
    /\ lastCall.op = "setHintPrices"
    /\ lastCall.byOwner
    /\ lastCall.level > MAX_LEVEL
    /\ lastCall.result = "InvalidLevel"
    /\ tokenIdCounter > 0
    /\ purchases # {}
    /\ hintPrices # DefaultHintPrices

(***************************************************************************)
(* Properties of the submit flow                                           *)
(***************************************************************************)
TokensFor(user, lvl) ==
    {t \in DOMAIN minted : minted[t].user = user /\ minted[t].level = lvl}

TokensForAfter(user, lvl) ==
    {t \in DOMAIN minted' : minted'[t].user = user /\ minted'[t].level = lvl}

\* The waiting call i gets its answer in this step.
Answered(i) == i \in DOMAIN inflight /\ inflight' = RemoveAt(inflight, i)

\* C6: when submissions of the correct secret for one (user, level) race,
\* with their responses and their mint transactions in any order, the
\* client's completedLevels holds each level at most once and grows by at
\* most one entry per response, and the contract holds at most one token per
\* (user, level): once completedLevels[user][level] is true it stays true
\* and no further token is minted for the pair.
C6_OneCompletionUnderRace ==
    /\ [](\A i, j \in DOMAIN appCompletedLevels :
            i < j => appCompletedLevels[i] < appCompletedLevels[j])
    /\ [](\A u \in Users, l \in 1..MAX_LEVEL :
            /\ Cardinality(TokensFor(u, l)) <= 1
            /\ (<<u, l>> \in completedLevels) = (TokensFor(u, l) # {}))
    /\ [][/\ Len(appCompletedLevels') <= Len(appCompletedLevels) + 1
          /\ \A u \in Users, l \in 1..MAX_LEVEL :
                <<u, l>> \in completedLevels =>
                    /\ <<u, l>> \in completedLevels'
                    /\ TokensForAfter(u, l) = TokensFor(u, l)]_vars

\* Two authorizations were issued for level 1, every call has been answered,
\* the first mint went through and the second was refused; the client lists
\* level 1 once and the contract holds one token.
C6_Witness ==
    /\ Cardinality(issuedNonces) >= 2
    /\ inflight = <<>>
    /\ appCompletedLevels = <<1>>
    /\ lastCall.op = "mintWithSignature"
    /\ lastCall.result = "AlreadyCompleted"
    /\ lastCall.sigDiff = "none"
    /\ tokenIdCounter = 1

\* C7: when a call is answered and the judge's verdict on its guess is
\* incorrect, completedLevels, collectedWords, the NFT modal with its stored
\* authorization and the issued nonces are as before, and the page never
\* shows success for it, however many such calls are answered.
C7_WrongGuessChangesNothing ==
    [][\A i \in DOMAIN inflight :
          (Answered(i) /\ ~Judge(inflight[i].level, inflight[i].password).correct)
              => /\ UNCHANGED <<appCompletedLevels, collectedWords, nftModal,
                                issuedNonces>>
                 /\ feedback' \in {"error", "failed"}]_vars

\* A wrong guess was answered after level 1 had been completed: the level,
\* its word and the modal with the authorization are still there.
C7_Witness ==
    /\ feedback = "error"
    /\ appCompletedLevels = <<1>>
    /\ collectedWords[1] = LevelSecrets[1]
    /\ nftModal.visible
    /\ nftModal.signatureData # NoSignature

\* The sentinel keyword in each of its 32 letter cases.
SparkSpellings ==
    {[i \in DOMAIN SPARK |-> IF i \in lowered THEN toLowerCase(SPARK)[i]
                             ELSE SPARK[i]] : lowered \in SUBSET DOMAIN SPARK}

\* C10: the judge finds the sentinel keyword correct in every letter case
\* for every level 1..7, and when a call whose guess is the keyword in any
\* case is answered, the page shows success, lists the level as completed
\* and records 'SPARK' as the level's collected word.
C10_SparkOverride ==
    /\ \A l \in 1..MAX_LEVEL, spelling \in SparkSpellings :
            Judge(l, spelling).correct
    /\ [][\A i \in DOMAIN inflight :
            (/\ Answered(i)
             /\ feedback' # "failed"
             /\ toUpperCase(inflight[i].password) = SPARK)
                => /\ feedback' = "success"
                   /\ collectedWords'[inflight[i].level] = SPARK
                   /\ Includes(appCompletedLevels', inflight[i].level)]_vars

\* The player passed level 1 with its secret and the last level with the
\* keyword typed in lower or mixed case: the words differ and the last one
\* reads SPARK.
C10_Witness ==
    /\ appLevel = totalLevels
    /\ feedback = "success"
    /\ collectedWords[1] = LevelSecrets[1]
    /\ collectedWords[totalLevels] = SPARK
    /\ collectedWords[totalLevels] # LevelSecrets[totalLevels]

(***************************************************************************)
(* Properties of the chat                                                  *)
(***************************************************************************)
Delivered == lastChat.op \in {"direct", "api"}

\* text is reply without a prefix made of blanks, question marks and colons.
StrippedSuffix(reply, text) ==
    \E k \in 0..Len(reply) :
        /\ text = SubSeq(reply, k + 1, Len(reply))
        /\ \A j \in 1..k : reply[j] \in Whitespace \cup LeadingPunctuation

\* C11 as stated: a reply that reaches the player and contains the level's
\* secret, in any letter case, is marked blocked.
C11_AsStated ==
    (Delivered /\ ContainsCI(lastChat.text, LevelSecrets[lastChat.level]))
        => lastChat.blocked

\* C11: the client has no output backstop of its own.  On the direct path
\* the completion reaches the player unblocked, without its leading blanks,
\* question marks and colons and otherwise unchanged, so a completion that
\* contains the level's secret is delivered with the secret in it; on the
\* backend path the player gets exactly the message and the blocked flag of
\* the response (the canned refusal for a blocked response without one).
C11_NoClientBackstop ==
    /\ lastChat.op = "direct" =>
          /\ ~lastChat.blocked
          /\ StrippedSuffix(lastChat.reply, lastChat.text)
          /\ ContainsCI(lastChat.reply, LevelSecrets[lastChat.level])
                => ContainsCI(lastChat.text, LevelSecrets[lastChat.level])
    /\ lastChat.op = "api" =>
          \/ lastChat.text = lastChat.reply
          \/ /\ lastChat.reply = <<>>
             /\ lastChat.blocked
             /\ lastChat.text = CannedRefusal

\* On level 1 the model answered with the secret after a question mark; the
\* player got the secret, unblocked, with the question mark removed.
C11_Witness ==
    /\ lastChat.op = "direct"
    /\ lastChat.level = 1
    /\ ~lastChat.blocked
    /\ lastChat.text # lastChat.reply
    /\ ContainsCI(lastChat.text, LevelSecrets[1])

(***************************************************************************)
(* Properties of the token                                                 *)
(***************************************************************************)
\* The documented banding.
TierBand(lvl) ==
    CASE lvl \in {1, 2} -> "Bronze"
      [] lvl \in {3, 4} -> "Silver"
      [] lvl \in {5, 6} -> "Gold"
      [] lvl = 7 -> "Platinum"

\* C13: getTier gives Bronze for levels 1-2, Silver for 3-4, Gold for 5-6
\* and Platinum for 7, and the metadata of every minted token shows the
\* level it was minted for and the tier of that level.
C13_TierBanding ==
    /\ \A l \in 1..MAX_LEVEL : getTier(l) = TierBand(l)
    /\ \A t \in DOMAIN minted :
          /\ tokenURI(t - 1).result = "ok"
          /\ tokenURI(t - 1).level = minted[t].level
          /\ tokenURI(t - 1).tier = TierBand(minted[t].level)

\* Two tokens exist, minted for levels 4 and 5, and their metadata shows
\* Silver and Gold.
C13_Witness ==
    /\ tokenIdCounter = 2
    /\ minted[1].level = 4
    /\ minted[2].level = 5
    /\ tokenURI(0).tier = "Silver"
    /\ tokenURI(1).tier = "Gold"

\* C12: the token is soulbound: every token is still owned by the player it
\* was minted to.
C12_Soulbound ==
    \A t \in DOMAIN owners : owners[t] = minted[t].user

(***************************************************************************)
(* Properties of the chat sessions                                         *)
(***************************************************************************)
ChatSent == Len(chatInflight') > Len(chatInflight)

ChatSettled == Len(chatInflight') < Len(chatInflight)

DeleteSent == Len(deleteInflight') > Len(deleteInflight)

DeleteSettled == Len(deleteInflight') < Len(deleteInflight)

\* C17: the chat client keeps one session id per level.  A request for a
\* level carries the id stored for that level, which is the id of the last
\* response to a request of that level since the level was last cleared
\* (none otherwise), and never the id stored for another level; a response
\* changes the id of its own level only; clearSession changes nothing
\* before its DELETE has returned and then removes the id of its own level
\* only.
C17_OneSessionPerLevel ==
    /\ \A l \in DOMAIN sessionIds : sessionIds[l] = NoSession
    /\ [][/\ ChatSent =>
                LET request == chatInflight'[Len(chatInflight')] IN
                /\ request.session_id = sessionIds[request.level]
                /\ \A m \in DOMAIN sessionIds \ {request.level} :
                      request.session_id # NoSession =>
                          request.session_id # sessionIds[m]
                /\ sessionIds' = sessionIds
          /\ (ChatSettled /\ lastChat'.op = "api") =>
                /\ sessionIds'[lastChat'.level] =
                       IF lastChat'.sessionId # NoSession
                       THEN lastChat'.sessionId
                       ELSE sessionIds[lastChat'.level]
                /\ \A m \in DOMAIN sessionIds \ {lastChat'.level} :
                      sessionIds'[m] = sessionIds[m]
          /\ (ChatSettled /\ lastChat'.op # "api") => sessionIds' = sessionIds
          /\ DeleteSent => sessionIds' = sessionIds
          /\ DeleteSettled =>
                \E i \in DOMAIN deleteInflight :
                    /\ deleteInflight' = RemoveAt(deleteInflight, i)
                    /\ \A m \in DOMAIN sessionIds \ {deleteInflight[i].level} :
                          sessionIds'[m] = sessionIds[m]
                    /\ sessionIds'[deleteInflight[i].level]
                           \in {NoSession, sessionIds[deleteInflight[i].level]}
          /\ ~(ChatSettled \/ DeleteSettled) => sessionIds' = sessionIds]_vars

\* Both levels have been given a session, the session of level 1 has been
\* cleared, and a request for the last level is on its way with that
\* level's id.
C17_Witness ==
    /\ createdSessions = 2
    /\ sessionIds[1] = NoSession
    /\ sessionIds[MAX_LEVEL] # NoSession
    /\ deleteInflight = <<>>
    /\ Len(chatInflight) = 1
    /\ chatInflight[1].level = MAX_LEVEL
    /\ chatInflight[1].session_id = sessionIds[MAX_LEVEL]

(***************************************************************************)
(* Properties of the level gate                                            *)
(***************************************************************************)
\* C18: the level on the page is at least 1 and at most one more than the
\* highest completed level (level 1 when nothing is completed).
C18_LevelGating ==
    /\ appLevel >= 1
    /\ \/ appLevel = 1
       \/ \E i \in DOMAIN appCompletedLevels :
             appLevel <= appCompletedLevels[i] + 1

(***************************************************************************)
(* Properties of the mint button                                           *)
(***************************************************************************)
\* NftSuccessModal's canMint, with no mint under way.
MintOffered ==
    /\ nftModal.visible
    /\ account # NoAccount
    /\ nftModal.signatureData # NoSignature

\* C15: when the modal offers the mint button for an authorization that was
\* issued to the zero-address fallback, mintWithSignature sent from the
\* connected account with the stored signature, nonce and deadline is
\* accepted by the contract.
C15_LateWalletCanMint ==
    (MintOffered /\ nftModal.signatureData.signature.hash[1] = ZeroAddress) =>
        MintOutcome(account, nftModal.signatureData.level,
                    nftModal.signatureData.signature,
                    nftModal.signatureData.nonce,
                    nftModal.signatureData.deadline) = "ok"

(***************************************************************************)
(* Properties of minting                                                   *)
(***************************************************************************)
Reentered(call) ==
    /\ call.op = "mintWithSignature"
    /\ "innerResult" \in DOMAIN call
    /\ call.innerResult # "none"

\* C19: a call of mintWithSignature made from onERC721Received during a
\* mint does not succeed with the nonce of the outer call nor for the
\* outer call's (caller, level), so that no nonce and no (caller, level)
\* ever has two tokens.
C19_ReentrancyHarmless ==
    /\ tokenIdCounter = 0
    /\ [][/\ Cardinality(usedNonces') = tokenIdCounter'
          /\ \A i, j \in DOMAIN minted' : i # j => minted'[i] # minted'[j]
          /\ Reentered(lastCall') =>
                /\ lastCall'.innerNonce = lastCall'.nonce =>
                       lastCall'.innerResult \in {"AlreadyCompleted",
                                                  "NonceAlreadyUsed"}
                /\ lastCall'.innerLevel = lastCall'.level =>
                       lastCall'.innerResult = "AlreadyCompleted"]_vars

\* The recipient re-entered with the outer call's nonce for another level,
\* was refused, caught the revert and kept the outer call's token.
C19_Witness ==
    /\ Reentered(lastCall)
    /\ lastCall.result = "ok"
    /\ lastCall.innerNonce = lastCall.nonce
    /\ lastCall.innerLevel # lastCall.level
    /\ lastCall.innerResult = "NonceAlreadyUsed"
    /\ tokenIdCounter = 1
    /\ owners[1] = ReceiverContract

\* C20: there are as many minted tokens as used nonces and as completed
\* (user, level) pairs; the token ids are 0..n-1, each with one owner, one
\* level and one completion time; every token's level is in 1..7.
C20_CountsAgree ==
    /\ Cardinality(usedNonces) = tokenIdCounter
    /\ Cardinality(completedLevels) = tokenIdCounter
    /\ DOMAIN owners = 1..tokenIdCounter
    /\ DOMAIN tokenLevel = 1..tokenIdCounter
    /\ DOMAIN tokenCompletedAt = 1..tokenIdCounter
    /\ \A t \in DOMAIN tokenLevel : tokenLevel[t] \in 1..MAX_LEVEL
    /\ \A t \in 0..(tokenIdCounter - 1) : tokenURI(t).result = "ok"
    /\ tokenURI(tokenIdCounter).result = "ERC721NonexistentToken"

\* Two tokens exist, minted for the first and the last level, the signer
\* has been rotated since, and the first token has changed hands.
C20_Witness ==
    /\ tokenIdCounter = 2
    /\ Cardinality(usedNonces) = 2
    /\ tokenLevel[1] = 1
    /\ tokenLevel[2] = MAX_LEVEL
    /\ signer = RotatedKey
    /\ owners[1] # minted[1].user

(***************************************************************************)
(* Properties of the hint shop                                             *)
(***************************************************************************)
IsNegotiated(call) == call.op = "payForHintWithNegotiatedPrice"

IsPurchase(call) == call.op \in {"payForHint", "payForHintWithNegotiatedPrice"}

\* The signed tuple a negotiated-price call presents as its own.
TupleOf(call) ==
    HintHash(call.sender, call.level, call.hintIndex, call.price,
             call.deadline, HintContract)

HintOf(call) == <<call.sender, call.level, call.hintIndex>>

NoTokensMove ==
    /\ tokenBalance' = tokenBalance
    /\ totalCollected' = totalCollected

\* The price messages that have been honoured, as the balances show them:
\* every honoured message is a recorded purchase, and what the buyers have
\* paid is what the contract holds.
HonouredOnce ==
    /\ \A h \in usedSignatures : <<h[1], h[2], h[3]>> \in purchases
    /\ \A h1, h2 \in usedSignatures :
          (h1[1] = h2[1] /\ h1[2] = h2[2] /\ h1[3] = h2[3]) => h1 = h2
    /\ tokenBalance[HintContract] = totalCollected

\* C14: a signed price message (buyer, level, hintIndex, negotiatedPrice,
\* deadline, contract) is honoured at most once: the call that honours it
\* finds it unused and marks it used, it stays used, and every later call
\* presenting it reverts with SignatureAlreadyUsed or AlreadyPurchased and
\* moves no tokens.
C14_ReplayProof ==
    /\ usedSignatures = {}
    /\ [][/\ usedSignatures \subseteq usedSignatures'
          /\ HonouredOnce'
          /\ (IsNegotiated(lastCall') /\ lastCall'.result = "ok") =>
                /\ TupleOf(lastCall') \notin usedSignatures
                /\ usedSignatures' = usedSignatures \cup {TupleOf(lastCall')}
                /\ totalCollected' = totalCollected + lastCall'.price
          /\ (IsNegotiated(lastCall') /\ TupleOf(lastCall') \in usedSignatures) =>
                /\ lastCall'.result \in {"SignatureAlreadyUsed", "AlreadyPurchased"}
                /\ NoTokensMove]_vars

\* A price message has been honoured and its buyer has just presented it
\* again, still before its deadline and with the balance to pay for it.
C14_Witness ==
    /\ IsNegotiated(lastCall)
    /\ lastCall.sigDiff = "none"
    /\ TupleOf(lastCall) \in usedSignatures
    /\ lastCall.result = "AlreadyPurchased"
    /\ now <= lastCall.deadline
    /\ tokenBalance[lastCall.sender] >= lastCall.price
    /\ totalCollected = lastCall.price

\* C16: for each (buyer, level, hintIndex) at most one purchase succeeds
\* across payForHint and payForHintWithNegotiatedPrice: a purchase that
\* succeeds finds the hint unpurchased and records it, the record stays,
\* and every later attempt at the hint by that buyer reverts with
\* AlreadyPurchased and moves no tokens.
C16_OnePurchasePerHint ==
    /\ purchases = {}
    /\ [][/\ purchases \subseteq purchases'
          /\ (IsPurchase(lastCall') /\ lastCall'.result = "ok") =>
                /\ HintOf(lastCall') \notin purchases
                /\ purchases' = purchases \cup {HintOf(lastCall')}
                /\ tokenBalance'[lastCall'.sender] =
                       tokenBalance[lastCall'.sender] - lastCall'.price
          /\ (IsPurchase(lastCall') /\ HintOf(lastCall') \in purchases) =>
                /\ lastCall'.result = "AlreadyPurchased"
                /\ NoTokensMove
          /\ (~IsPurchase(lastCall') \/ lastCall'.result # "ok") =>
                /\ purchases' = purchases
                /\ NoTokensMove]_vars

\* A buyer who bought a hint with a price message has just tried to buy it
\* again at the fixed price, which is on sale and within the balance.
C16_Witness ==
    /\ lastCall.op = "payForHint"
    /\ lastCall.result = "AlreadyPurchased"
    /\ HintOf(lastCall) \in purchases
    /\ \E h \in usedSignatures : <<h[1], h[2], h[3]>> = HintOf(lastCall)
    /\ hintPrices[lastCall.level][lastCall.hintIndex + 1] = SalePrice
    /\ tokenBalance[lastCall.sender] >= SalePrice

(***************************************************************************)
(* A returning player: the page loaded over whatever was stored            *)
(***************************************************************************)
MaxStored == 3

\* The items a stored array may hold: level numbers, numbers out of range,
\* a fraction, numeric and other strings, a boolean, null, an object and a
\* nested array.
StoredElements ==
    {JNumber(1), JNumber(2), JNumber(7), JNumber(0), JNumber(8), JHalf(2),
     JString(<<"2">>), JString(<<"x">>), JBoolean(TRUE), JNull, JObject,
     JArray(<<JNumber(7)>>)}

StoredArrays == UNION {[1..n -> StoredElements] : n \in 0..MaxStored}

StoredItems ==
    {NoItem, StorageDenied, EmptyText, MalformedText, JsonText(JNumber(3)),
     JsonText(JString(<<"1">>)), JsonText(JObject), JsonText(JNull)}
        \cup {JsonText(JArray(items)) : items \in StoredArrays}

InitStored == \E item \in StoredItems : InitLoaded(item)

\* The player submits the secrets of the first levels without waiting for
\* the verdicts, which arrive in any order.
NextStored ==
    \/ TypeTheSecret
    \/ SubmitClick
    \/ JudgeResponds({FALSE})
    \/ ChatLevelSelectClick

SpecStored == InitStored /\ [][NextStored]_vars

(***************************************************************************)
(* C22                                                                     *)
(***************************************************************************)
ChatRequestSent == Len(chatInflight') > Len(chatInflight)
ChatRequestSettled == Len(chatInflight') < Len(chatInflight)

\* C22: the page has at most one chat request in flight, and chatPending
\* is true exactly while it is; a request goes out only when none is
\* pending and the box holds more than white space, and it sets chatPending
\* and clears the box; a request that resolves or rejects clears
\* chatPending; a pending request is always followed by a state where none
\* is pending.
C22_OneChatInFlight ==
    /\ [](Len(chatInflight) <= 1 /\ (chatPending <=> Len(chatInflight) = 1))
    /\ [][/\ ChatRequestSent =>
                /\ ~chatPending
                /\ trim(chatValue) # <<>>
                /\ chatPending'
                /\ chatValue' = <<>>
          /\ ChatRequestSettled => ~chatPending'
          /\ (chatPending /\ chatPending') => chatInflight' = chatInflight]_vars
    /\ (chatPending ~> ~chatPending)

\* A second request is pending after the first one failed.
C22_Witness ==
    /\ chatPending
    /\ Len(chatInflight) = 1
    /\ aiReply.source = "failed"
    /\ lastChat.op = "failed"

(***************************************************************************)
(* C23                                                                     *)
(***************************************************************************)
\* C23: a chat reply on display answers a message that was sent on the
\* level the page is on.
C23_ReplyOfCurrentLevel ==
    aiReply.source = "chat" => aiReply.level = appLevel

(***************************************************************************)
(* C24                                                                     *)
(***************************************************************************)
\* C24: completedLevels holds integers of 1..7 in strictly ascending order,
\* so each at most once, whatever was stored when the page loaded and in
\* whatever order the verdicts of the submissions arrive.
C24_CompletedLevelsAscending ==
    /\ \A i \in DOMAIN appCompletedLevels :
            appCompletedLevels[i] \in 1..totalLevels
    /\ \A i, j \in DOMAIN appCompletedLevels :
            i < j => appCompletedLevels[i] < appCompletedLevels[j]

\* Level 7 came from the stored item; the verdict for level 2 arrived
\* while the earlier submission for level 1 still waits.
C24_Witness ==
    /\ appCompletedLevels = <<2, 7>>
    /\ collectedWords[7] = <<>>
    /\ collectedWords[2] # <<>>
    /\ inflight # <<>>
    /\ inflight[1].level = 1

====
